---------------------------- MODULE Spec2Model ----------------------------
(***************************************************************************)
(* Model of fatal/type/pair.h: the compile-time type_pair and the           *)
(* meta-functions defined over it (invert, apply, transform,               *)
(* type_pair_from, type_get_traits).                                       *)
(*                                                                         *)
(* A C++ type is a term [name, args]: `int` is [name |-> "int", args |->    *)
(* <<>>], `Foo<int>` is [name |-> "Foo", args |-> <<int>>].  Two types are  *)
(* the same type exactly when their terms are equal.  A state of the model *)
(* is a point of a translation unit: `pair` is the type_pair currently     *)
(* named by an alias, `result` what the last evaluated meta-function       *)
(* expression produced, `last` the expression that was evaluated.          *)
(***************************************************************************)
EXTENDS Naturals, Sequences, FiniteSets

VARIABLES pair, result, last

vars == <<pair, result, last>>

-----------------------------------------------------------------------------
(* Bounds *)

\* deepest nesting of template-ids kept in a slot of `pair`
MaxDepth == 2

\* indices tried with type_get_traits are 0..MaxIndex
MaxIndex == 3

-----------------------------------------------------------------------------
(* Types and templates *)

Type(name, args) == [name |-> name, args |-> args]

\* the absence of a type (an expression that failed to compile names none)
NoType == Type("", <<>>)

\* the types the examples of pair.h put in pairs
BaseTypes == {Type("int", <<>>), Type("bool", <<>>)}

\* the unary templates the examples of pair.h pass as transforms
Transforms == {"identity_transform", "Foo", "Bar"}

\* the templates the stored types are applied to
Templates == {"std::pair", "type_pair"}

\* identity_transform<T> is an alias of T itself
identity_transform(T) == T

\* The template-id Tmpl<Args...>: an alias template names the aliased type,
\* a class template names a type of its own for each argument list.
Instantiate(Tmpl, Args) ==
  IF Tmpl = "identity_transform"
    THEN identity_transform(Args[1])
    ELSE Type(Tmpl, Args)

RECURSIVE Depth(_)
Depth(T) ==
  IF T.args = <<>> THEN 0
  ELSE LET d1 == Depth(T.args[1])
           d2 == IF Len(T.args) > 1 THEN Depth(T.args[2]) ELSE 0
       IN 1 + (IF d1 >= d2 THEN d1 ELSE d2)

-----------------------------------------------------------------------------
(* type_pair *)

type_pair(TFirst, TSecond) == Type("type_pair", <<TFirst, TSecond>>)

first(P) == P.args[1]

second(P) == P.args[2]

\* The template argument lists a use may write for <TFirstTransform,
\* TSecondTransform>: none, the first only, or both.
TransformArgs ==
  {<<>>} \cup {<<F>> : F \in Transforms}
         \cup {<<F, G>> : F \in Transforms, G \in Transforms}

\* the i-th transform of an argument list, with the default argument of the
\* template parameter when the list is too short
TransformParam(TArgs, i) ==
  IF i <= Len(TArgs) THEN TArgs[i] ELSE "identity_transform"

invert_same(P) == type_pair(first(P), second(P))

invert_dup(P) == type_pair(second(P), second(P))

invert(P) == type_pair(second(P), first(P))

apply_swapped(P, T, TArgs) ==
  Instantiate(T, << Instantiate(TransformParam(TArgs, 2), <<second(P)>>),
                    Instantiate(TransformParam(TArgs, 1), <<first(P)>>) >>)

apply(P, T, TArgs) ==
  Instantiate(T, << Instantiate(TransformParam(TArgs, 1), <<first(P)>>),
                    Instantiate(TransformParam(TArgs, 2), <<second(P)>>) >>)

transform_crossed(P, TArgs) ==
  type_pair(Instantiate(TransformParam(TArgs, 2), <<first(P)>>),
            Instantiate(TransformParam(TArgs, 1), <<second(P)>>))

transform_both(P, TArgs) ==
  type_pair(Instantiate(TransformParam(TArgs, 1), <<first(P)>>),
            Instantiate(TransformParam(TArgs, IF Len(TArgs) = 1 THEN 1 ELSE 2),
                        <<second(P)>>))

transform(P, TArgs) ==
  type_pair(Instantiate(TransformParam(TArgs, 1), <<first(P)>>),
            Instantiate(TransformParam(TArgs, 2), <<second(P)>>))

type_pair_from_first(TArgs, U) ==
  type_pair(Instantiate(TransformParam(TArgs, 1), <<U>>),
            Instantiate(TransformParam(TArgs, 1), <<U>>))

type_pair_from(TArgs, U) ==
  type_pair(Instantiate(TransformParam(TArgs, 1), <<U>>),
            Instantiate(TransformParam(TArgs, 2), <<U>>))

\* What an expression evaluates to: a type, or a diagnostic and no type.
Ok(T) == [outcome |-> "ok", diag |-> "", type |-> T]

Error(msg) == [outcome |-> "error", diag |-> msg, type |-> NoType]

type_get_traits_unchecked(P, Index) ==
  Ok(IF Index = 0 THEN first(P) ELSE second(P))

type_get_traits_off_by_one(P, Index) ==
  IF ~(Index < 2)
    THEN Error("index out of bounds")
    ELSE Ok(IF Index = 1 THEN first(P) ELSE second(P))

type_get_traits(P, Index) ==
  IF ~(Index < 2)
    THEN Error("index out of bounds")
    ELSE Ok(IF Index = 0 THEN first(P) ELSE second(P))

-----------------------------------------------------------------------------
(* The translation unit *)

\* the expression evaluated last
Expr(op, in, T, TArgs, U, Index) ==
  [op |-> op, in |-> in, T |-> T, TArgs |-> TArgs, U |-> U, Index |-> Index]

InDepth(P) == Depth(first(P)) <= MaxDepth /\ Depth(second(P)) <= MaxDepth

Init ==
  /\ pair \in {type_pair(A, B) : A \in BaseTypes, B \in BaseTypes}
  /\ result = [outcome |-> "none", diag |-> "", type |-> NoType]
  /\ last = Expr("none", pair, "", <<>>, NoType, 0)

\* using pair = pair::invert;
Invert ==
  /\ pair' = invert(pair)
  /\ result' = Ok(pair')
  /\ last' = Expr("invert", pair, "", <<>>, NoType, 0)

\* using result = pair::apply<T, TArgs...>;
Apply ==
  \E T \in Templates, TArgs \in TransformArgs :
    /\ result' = Ok(apply(pair, T, TArgs))
    /\ last' = Expr("apply", pair, T, TArgs, NoType, 0)
    /\ UNCHANGED pair

\* using pair = pair::transform<TArgs...>;
Transform ==
  \E TArgs \in TransformArgs :
    /\ InDepth(transform(pair, TArgs))
    /\ pair' = transform(pair, TArgs)
    /\ result' = Ok(pair')
    /\ last' = Expr("transform", pair, "", TArgs, NoType, 0)

\* using pair = type_pair_from<TArgs...>::type<U>;
From ==
  \E TArgs \in TransformArgs, U \in BaseTypes \cup {first(pair), second(pair)} :
    /\ InDepth(type_pair_from(TArgs, U))
    /\ pair' = type_pair_from(TArgs, U)
    /\ result' = Ok(pair')
    /\ last' = Expr("type_pair_from", pair, "", TArgs, U, 0)

\* using result = typename type_get_traits<pair, Index>::type;
Get ==
  \E Index \in 0..MaxIndex :
    /\ result' = type_get_traits(pair, Index)
    /\ last' = Expr("type_get_traits", pair, "", <<>>, NoType, Index)
    /\ UNCHANGED pair

Next == Invert \/ Apply \/ Transform \/ From \/ Get

Spec == Init /\ [][Next]_vars

-----------------------------------------------------------------------------
(* Properties *)

\* C1: selecting from a type_pair with an index of 2 or more ends in the
\* "index out of bounds" error and yields no type (never the second type);
\* selecting with index 0 or 1 raises no error.
C1_OutOfRangeRejected ==
  last.op = "type_get_traits" =>
    /\ last.Index >= 2 =>
         /\ result.outcome = "error"
         /\ result.diag = "index out of bounds"
         /\ result.type = NoType
         /\ result.type # second(last.in)
    /\ last.Index < 2 => result.outcome = "ok" /\ result.diag = ""

C1_Witness ==
  /\ last.op = "type_get_traits"
  /\ last.Index >= 2
  /\ result.outcome = "error"

\* C2: selection with index 0 yields the first stored type and selection with
\* index 1 the second stored type, also when both stored types are the same.
C2_IndexedSelection ==
  last.op = "type_get_traits" =>
    /\ last.Index = 0 => result.outcome = "ok" /\ result.type = first(last.in)
    /\ last.Index = 1 => result.outcome = "ok" /\ result.type = second(last.in)

C2_Witness ==
  /\ last.op = "type_get_traits"
  /\ last.Index = 1
  /\ first(last.in) # second(last.in)
  /\ result.type = second(last.in)

\* C3: type_pair<A, B>::invert is exactly type_pair<B, A>: its first is B and
\* its second is A.
C3_InvertSwaps ==
  last.op = "invert" =>
    /\ pair.name = "type_pair"
    /\ Len(pair.args) = 2
    /\ first(pair) = second(last.in)
    /\ second(pair) = first(last.in)
    /\ result = Ok(pair)

C3_Witness ==
  /\ last.op = "invert"
  /\ first(last.in) # second(last.in)
  /\ first(pair) = second(last.in)

\* C4: type_pair<A, B>::transform<F, G> is exactly type_pair<F<A>, G<B>>, F
\* applied only to first and G only to second; transform<> is the identity.
C4_TransformSlots ==
  last.op = "transform" =>
    /\ Len(last.TArgs) = 2 =>
         pair = type_pair(Instantiate(last.TArgs[1], <<first(last.in)>>),
                          Instantiate(last.TArgs[2], <<second(last.in)>>))
    /\ Len(last.TArgs) = 0 => pair = last.in
    /\ result = Ok(pair)

C4_Witness ==
  /\ last.op = "transform"
  /\ Len(last.TArgs) = 2
  /\ last.TArgs[1] = "Foo"
  /\ last.TArgs[2] = "Bar"
  /\ first(pair) = Type("Foo", <<first(last.in)>>)
  /\ second(pair) = Type("Bar", <<second(last.in)>>)

\* C5: type_pair<A, B>::apply<T, F, G> is exactly T<F<A>, G<B>>, the stored
\* types passed first then second, each under its own transform; apply<T> is
\* T<A, B> and apply<T, F> is T<F<A>, B>.
C5_ApplyOrder ==
  last.op = "apply" =>
    /\ result.outcome = "ok"
    /\ Len(last.TArgs) = 2 =>
         result.type =
           Type(last.T, << Instantiate(last.TArgs[1], <<first(last.in)>>),
                           Instantiate(last.TArgs[2], <<second(last.in)>>) >>)
    /\ Len(last.TArgs) = 1 =>
         result.type =
           Type(last.T, << Instantiate(last.TArgs[1], <<first(last.in)>>),
                           second(last.in) >>)
    /\ Len(last.TArgs) = 0 =>
         result.type = Type(last.T, <<first(last.in), second(last.in)>>)

C5_Witness ==
  /\ last.op = "apply"
  /\ last.T = "std::pair"
  /\ last.TArgs = <<"Foo", "Bar">>
  /\ first(last.in) # second(last.in)
  /\ result.type = Type("std::pair", << Type("Foo", <<first(last.in)>>),
                                        Type("Bar", <<second(last.in)>>) >>)

\* C6: type_pair_from<F, G>::type<U> is exactly type_pair<F<U>, G<U>>, both
\* members derived from the one type U; type_pair_from<F>::type<U> is
\* type_pair<F<U>, U> and type_pair_from<>::type<U> is type_pair<U, U>.
C6_PairFrom ==
  last.op = "type_pair_from" =>
    /\ Len(last.TArgs) = 2 =>
         pair = type_pair(Instantiate(last.TArgs[1], <<last.U>>),
                          Instantiate(last.TArgs[2], <<last.U>>))
    /\ Len(last.TArgs) = 1 =>
         pair = type_pair(Instantiate(last.TArgs[1], <<last.U>>), last.U)
    /\ Len(last.TArgs) = 0 => pair = type_pair(last.U, last.U)
    /\ result = Ok(pair)

C6_Witness ==
  /\ last.op = "type_pair_from"
  /\ last.TArgs = <<"Foo", "Bar">>
  /\ pair = type_pair(Type("Foo", <<last.U>>), Type("Bar", <<last.U>>))

\* C7: with only the first transform given the second slot is left unchanged
\* (transform<F> is type_pair<F<A>, B>), and transform<identity_transform, G>
\* leaves the first slot unchanged; the same holds of the slots apply passes.
C7_OtherSlotUnchanged ==
  /\ last.op = "transform" =>
       /\ Len(last.TArgs) = 1 =>
            /\ second(pair) = second(last.in)
            /\ first(pair) = Instantiate(last.TArgs[1], <<first(last.in)>>)
       /\ (Len(last.TArgs) = 2 /\ last.TArgs[1] = "identity_transform") =>
            first(pair) = first(last.in)
       /\ (Len(last.TArgs) = 2 /\ last.TArgs[2] = "identity_transform") =>
            second(pair) = second(last.in)
  /\ last.op = "apply" =>
       /\ Len(last.TArgs) = 1 => result.type.args[2] = second(last.in)
       /\ (Len(last.TArgs) = 2 /\ last.TArgs[1] = "identity_transform") =>
            result.type.args[1] = first(last.in)

C7_Witness ==
  /\ last.op = "transform"
  /\ last.TArgs = <<"Foo">>
  /\ first(pair) = Type("Foo", <<first(last.in)>>)
  /\ second(pair) = second(last.in)

\* C8: invert is an involution (inverting the inverted pair gives back the
\* original pair), and the inverted pair is the original pair exactly when
\* both stored types are the same type.
C8_InvertInvolution ==
  last.op = "invert" =>
    /\ invert(pair) = last.in
    /\ (pair = last.in) <=> (first(last.in) = second(last.in))

C8_Witness ==
  /\ last.op = "invert"
  /\ pair # last.in
  /\ invert(pair) = last.in
  /\ Depth(first(pair)) # Depth(second(pair))


=============================================================================
